---- MODULE Spec2Model ----
(***************************************************************************)
(* Model of the package sorter in src/src/main.rs: the newtypes            *)
(* Centimeters and Kilograms over f64, the Package struct with volume,     *)
(* is_bulky, is_heavy and sort_category, SortCategory::as_str, the free    *)
(* function sort, and the console driver main.                             *)
(*                                                                         *)
(* An f64 is modelled as a record                                          *)
(*     [k |-> "fin", s |-> sign, m |-> mantissa, e |-> exponent]           *)
(* of value (-1)^s * m * 2^e (m odd, or m = 0 and e = 0 for the two zeros),*)
(* or k = "inf" (with a sign) or k = "nan".  Multiplication and `>=` follow*)
(* IEEE-754 binary64: round to nearest even on a 53-bit significand,       *)
(* gradual underflow below 2^-1022, overflow to infinity, NaN propagation. *)
(* The operators are exact for every pair of values whose mantissa product *)
(* is below 2^31, the largest integer TLC computes with; the values drawn   *)
(* here have short mantissas (the longest, 15625 of 1,000,000, has 14 bits).*)
(***************************************************************************)
EXTENDS Integers, Sequences, FiniteSets

VARIABLES package, ret, pc, out

vars == <<package, ret, pc, out>>

----------------------------------------------------------------------------
(* f64 arithmetic *)

Max(a, b) == IF a >= b THEN a ELSE b

Min(a, b) == IF a <= b THEN a ELSE b

RECURSIVE Pow2(_)
Pow2(n) == IF n = 0 THEN 1 ELSE 2 * Pow2(n - 1)

\* number of significant bits of a natural number
RECURSIVE BitLen(_)
BitLen(n) == IF n = 0 THEN 0 ELSE 1 + BitLen(n \div 2)

NaN == [k |-> "nan", s |-> 0, m |-> 0, e |-> 0]

Inf(s) == [k |-> "inf", s |-> s, m |-> 0, e |-> 0]

Zero(s) == [k |-> "fin", s |-> s, m |-> 0, e |-> 0]

\* the finite value (-1)^s * m * 2^e in canonical form (odd mantissa)
RECURSIVE Fin(_, _, _)
Fin(s, m, e) ==
    IF m = 0 THEN Zero(s)
    ELSE IF m % 2 = 0 THEN Fin(s, m \div 2, e + 1)
    ELSE [k |-> "fin", s |-> s, m |-> m, e |-> e]

\* exponent of the leading bit of a non-zero finite value
Top(m, e) == BitLen(m) - 1 + e

\* the binary64 nearest to (-1)^s * m * 2^e, ties to even.  q is the exponent
\* of the last bit binary64 keeps and shift the number of bits of m below it:
\* the kept mantissa is m / 2^shift rounded.  When shift reaches the length of
\* m nothing is kept but the rounding: up to 1 when m is above half of 2^shift,
\* else to 0.
RoundF64(s, m, e) ==
    IF m = 0 THEN Zero(s)
    ELSE LET q == Max(Top(m, e) - 52, 0 - 1074)
         IN IF q <= e
            THEN IF Top(m, e) > 1023 THEN Inf(s) ELSE Fin(s, m, e)
            ELSE LET shift == q - e
                     m2 == IF shift > BitLen(m) THEN 0
                           ELSE IF shift = BitLen(m)
                                THEN IF m > Pow2(shift - 1) THEN 1 ELSE 0
                           ELSE LET d    == Pow2(shift)
                                    qd   == m \div d
                                    r    == m % d
                                    half == d \div 2
                                    up   == r > half \/ (r = half /\ qd % 2 = 1)
                                IN IF up THEN qd + 1 ELSE qd
                 IN IF m2 = 0 THEN Zero(s)
                    ELSE IF Top(m2, q) > 1023 THEN Inf(s)
                    ELSE Fin(s, m2, q)

Xor(a, b) == (a + b) % 2

\* f64 `*`
Mul(a, b) ==
    IF a.k = "nan" \/ b.k = "nan" THEN NaN
    ELSE IF a.k = "inf" \/ b.k = "inf"
         THEN IF (a.k = "fin" /\ a.m = 0) \/ (b.k = "fin" /\ b.m = 0)
              THEN NaN
              ELSE Inf(Xor(a.s, b.s))
    ELSE RoundF64(Xor(a.s, b.s), a.m * b.m, a.e + b.e)

\* |a| >= |b| for non-zero finite a, b
MagGe(a, b) ==
    IF Top(a.m, a.e) # Top(b.m, b.e) THEN Top(a.m, a.e) > Top(b.m, b.e)
    ELSE LET lo == Min(a.e, b.e)
         IN a.m * Pow2(a.e - lo) >= b.m * Pow2(b.e - lo)

\* -1, 0 or 1 for a finite or infinite value
Sgn(a) == IF a.k = "fin" /\ a.m = 0 THEN 0 ELSE IF a.s = 1 THEN 0 - 1 ELSE 1

\* f64 `>=`: false as soon as one side is NaN
Ge(a, b) ==
    IF a.k = "nan" \/ b.k = "nan" THEN FALSE
    ELSE IF Sgn(a) # Sgn(b) THEN Sgn(a) > Sgn(b)
    ELSE IF Sgn(a) = 0 THEN TRUE
    ELSE IF a.k = "inf" \/ b.k = "inf"
         THEN IF Sgn(a) = 1 THEN a.k = "inf" ELSE b.k = "inf"
    ELSE IF Sgn(a) = 1 THEN MagGe(a, b) ELSE MagGe(b, a)

\* the f64 literal n.0 of an integer n
Lit(n) == IF n < 0 THEN Fin(1, 0 - n, 0) ELSE Fin(0, n, 0)

----------------------------------------------------------------------------
(* The program *)

\* main.rs:83, 84, 94
VOLUME_THRESHOLD == Lit(1000000)

DIMENSION_THRESHOLD == Lit(150)

MASS_THRESHOLD == Lit(20)

\* Centimeters::new / Centimeters::value wrap and unwrap the f64 unchanged
Centimeters(v) == [cm |-> v]

CmValue(c) == c.cm

\* Kilograms::new / Kilograms::value
Kilograms(v) == [kg |-> v]

KgValue(k) == k.kg

\* Package::new
PackageNew(width, height, length, mass) ==
    [width |-> width, height |-> height, length |-> length, mass |-> mass]

\* Package::volume: (width * height) * length, each product rounded to f64
volume(p) == Mul(Mul(CmValue(p.width), CmValue(p.height)), CmValue(p.length))

\* f64 `>`
Gt(a, b) == Ge(a, b) /\ ~Ge(b, a)

\* is_bulky with exclusive thresholds (`>` written for `>=`)
is_bulky_exclusive(p) ==
    \/ Gt(volume(p), VOLUME_THRESHOLD)
    \/ Gt(CmValue(p.width), DIMENSION_THRESHOLD)
    \/ Gt(CmValue(p.height), DIMENSION_THRESHOLD)
    \/ Gt(CmValue(p.length), DIMENSION_THRESHOLD)

\* is_bulky that forgets the height
is_bulky_skips_height(p) ==
    \/ Ge(volume(p), VOLUME_THRESHOLD)
    \/ Ge(CmValue(p.width), DIMENSION_THRESHOLD)
    \/ Ge(CmValue(p.length), DIMENSION_THRESHOLD)

\* Package::is_bulky
is_bulky(p) ==
    \/ Ge(volume(p), VOLUME_THRESHOLD)
    \/ Ge(CmValue(p.width), DIMENSION_THRESHOLD)
    \/ Ge(CmValue(p.height), DIMENSION_THRESHOLD)
    \/ Ge(CmValue(p.length), DIMENSION_THRESHOLD)

\* is_heavy with an exclusive threshold
is_heavy_exclusive(p) == Gt(KgValue(p.mass), MASS_THRESHOLD)

\* is_heavy that reads the width where it should read the mass
is_heavy_reads_width(p) == Ge(CmValue(p.width), MASS_THRESHOLD)

\* Package::is_heavy
is_heavy(p) == Ge(KgValue(p.mass), MASS_THRESHOLD)

\* enum SortCategory
SortCategory == {"Standard", "Special", "Rejected"}

\* sort_category that rejects every bulky package
sort_category_bulky_rejects(p) ==
    IF is_bulky(p) THEN "Rejected"
    ELSE IF is_heavy(p) THEN "Special"
    ELSE "Standard"

\* sort_category with the first two arms exchanged
sort_category_arms_exchanged(p) ==
    IF is_bulky(p) /\ is_heavy(p) THEN "Special"
    ELSE IF is_bulky(p) \/ is_heavy(p) THEN "Rejected"
    ELSE "Standard"

\* Package::sort_category
sort_category(p) ==
    IF is_bulky(p) /\ is_heavy(p) THEN "Rejected"
    ELSE IF is_bulky(p) \/ is_heavy(p) THEN "Special"
    ELSE "Standard"

\* as_str that prints Special as "STANDARD"
as_str_collapsed(c) ==
    CASE c = "Standard" -> "STANDARD"
      [] c = "Special"  -> "STANDARD"
      [] c = "Rejected" -> "REJECTED"

\* SortCategory::as_str
as_str(c) ==
    CASE c = "Standard" -> "STANDARD"
      [] c = "Special"  -> "SPECIAL"
      [] c = "Rejected" -> "REJECTED"

\* sort with a validation step in front
sort_validating(width, height, length, mass) ==
    IF \/ Gt(Lit(0), width) \/ Gt(Lit(0), height)
       \/ Gt(Lit(0), length) \/ Gt(Lit(0), mass)
    THEN "INVALID"
    ELSE as_str(sort_category(PackageNew(Centimeters(width), Centimeters(height),
                                         Centimeters(length), Kilograms(mass))))

\* fn sort
sort(width, height, length, mass) ==
    as_str(sort_category(PackageNew(Centimeters(width), Centimeters(height),
                                    Centimeters(length), Kilograms(mass))))

\* the vector test_cases of main
test_cases ==
    << <<Lit(50),  Lit(50),  Lit(50),  Lit(10), "Standard package">>,
       <<Lit(100), Lit(100), Lit(100), Lit(10), "Bulky by volume">>,
       <<Lit(160), Lit(50),  Lit(50),  Lit(10), "Bulky by dimension">>,
       <<Lit(50),  Lit(50),  Lit(50),  Lit(25), "Heavy package">>,
       <<Lit(160), Lit(50),  Lit(50),  Lit(25), "Bulky and heavy">> >>

\* let category = sort(width, height, length, mass), for each entry of test_cases
categories ==
    [i \in 1..Len(test_cases) |->
        sort(test_cases[i][1], test_cases[i][2], test_cases[i][3], test_cases[i][4])]

----------------------------------------------------------------------------
(* Inputs of the callers *)

\* the grids of dimensions 0, 50, ..., 50 * DimSteps and masses 0, 10, ..., 10 * MassSteps
DimSteps == 3

MassSteps == 2

\* -2^515: its square overflows binary64
NegHuge == Fin(1, 1, 515)

\* 2^-1060: a subnormal
Tiny == Fin(0, 1, 0 - 1060)

Dims ==
    {Lit(50 * n) : n \in 0..DimSteps} \cup {Lit(160), NegHuge, Tiny, Inf(0), NaN}

Masses ==
    {Lit(10 * n) : n \in 0..MassSteps} \cup {Lit(25), Lit(0 - 1), NaN}

----------------------------------------------------------------------------
(* State machine.  package is the Package built last, ret the operation     *)
(* last applied to it and what it returned; pc and out are the position of  *)
(* main and the result lines it has printed.  A caller's package is drawn   *)
(* in Init; main's sort calls build the packages of test_cases.             *)

\* the four numbers of the current package
W == CmValue(package.width)

H == CmValue(package.height)

L == CmValue(package.length)

M == KgValue(package.mass)

Init ==
    /\ \E w \in Dims, h \in Dims, l \in Dims, m \in Masses :
          package = PackageNew(Centimeters(w), Centimeters(h), Centimeters(l), Kilograms(m))
    /\ ret = [op |-> "new", val |-> "none"]
    /\ pc = "start"
    /\ out = <<>>

CallVolume ==
    /\ ret' = [op |-> "volume", val |-> volume(package)]
    /\ UNCHANGED <<package, pc, out>>

CallIsBulky ==
    /\ ret' = [op |-> "is_bulky", val |-> is_bulky(package)]
    /\ UNCHANGED <<package, pc, out>>

CallIsHeavy ==
    /\ ret' = [op |-> "is_heavy", val |-> is_heavy(package)]
    /\ UNCHANGED <<package, pc, out>>

CallSortCategory ==
    /\ ret' = [op |-> "sort_category", val |-> sort_category(package)]
    /\ UNCHANGED <<package, pc, out>>

\* as_str of the category sort_category has just returned
CallAsStr ==
    /\ ret.op = "sort_category"
    /\ ret' = [op |-> "as_str", val |-> as_str(ret.val)]
    /\ UNCHANGED <<package, pc, out>>

\* a caller calls sort on the four numbers of the package; sort wraps them in
\* a Package of its own and classifies it
CallSort ==
    /\ ret' = [op |-> "sort",
               val |-> sort(CmValue(package.width), CmValue(package.height),
                            CmValue(package.length), KgValue(package.mass))]
    /\ UNCHANGED <<package, pc, out>>

\* main prints its banner and builds test_cases
MainStart ==
    /\ pc = "start"
    /\ pc' = "loop"
    /\ UNCHANGED <<package, ret, out>>

\* one iteration of main's for loop: sort builds the Package of the next
\* sample and classifies it, and main prints the line
MainIter ==
    /\ pc = "loop"
    /\ Len(out) < Len(test_cases)
    /\ LET tc == test_cases[Len(out) + 1]
           category == categories[Len(out) + 1]
       IN /\ package' = PackageNew(Centimeters(tc[1]), Centimeters(tc[2]),
                                   Centimeters(tc[3]), Kilograms(tc[4]))
          /\ ret' = [op |-> "sort", val |-> category]
          /\ out' = Append(out, [description |-> tc[5], width |-> tc[1], height |-> tc[2],
                                 length |-> tc[3], mass |-> tc[4], category |-> category])
    /\ UNCHANGED pc

\* main leaving its loop one sample early
MainExit_early ==
    /\ pc = "loop"
    /\ Len(out) >= Len(test_cases) - 1
    /\ pc' = "done"
    /\ UNCHANGED <<package, ret, out>>

\* the loop is exhausted and main returns
MainExit ==
    /\ pc = "loop"
    /\ Len(out) = Len(test_cases)
    /\ pc' = "done"
    /\ UNCHANGED <<package, ret, out>>

Main == MainStart \/ MainIter \/ MainExit

Next ==
    \/ CallVolume
    \/ CallIsBulky
    \/ CallIsHeavy
    \/ CallSortCategory
    \/ CallAsStr
    \/ CallSort
    \/ MainStart
    \/ MainIter
    \/ MainExit

Spec == Init /\ [][Next]_vars

\* the dimensions and masses that occur in test_cases
SampleDims == {test_cases[i][j] : i \in 1..Len(test_cases), j \in 1..3}

SampleMasses == {test_cases[i][4] : i \in 1..Len(test_cases)}

\* the caller's package is made of the numbers of the samples
SampleInit ==
    /\ Init
    /\ W \in SampleDims /\ H \in SampleDims /\ L \in SampleDims
    /\ M \in SampleMasses

\* main is sequential code that the process runs to completion
FairSpec == SampleInit /\ [][Next]_vars /\ WF_vars(Main)

----------------------------------------------------------------------------
(* Vocabulary of the properties *)

\* f64 `<`
Lt(a, b) == Ge(b, a) /\ ~Ge(a, b)

Strings == {"STANDARD", "SPECIAL", "REJECTED"}

\* restrictiveness: Standard < Special < Rejected
Rank(str) == IF str = "STANDARD" THEN 0 ELSE IF str = "SPECIAL" THEN 1 ELSE 2

NonNeg(x) == Ge(x, Lit(0))

----------------------------------------------------------------------------
(* C1 *)

\* C1: sort_category follows the decision table: Rejected iff the package is
\* bulky and heavy, Special iff exactly one of the two, Standard iff neither.
C1_DecisionTable ==
    ret.op = "sort_category" =>
        /\ (ret.val = "Rejected") <=> (is_bulky(package) /\ is_heavy(package))
        /\ (ret.val = "Special")  <=> (is_bulky(package) # is_heavy(package))
        /\ (ret.val = "Standard") <=> (~is_bulky(package) /\ ~is_heavy(package))

\* a heavy package that is not bulky has been classified Special
C1_Witness ==
    /\ ret.op = "sort_category"
    /\ ret.val = "Special"
    /\ is_heavy(package)
    /\ ~is_bulky(package)

----------------------------------------------------------------------------
(* C2 *)

\* C2: is_bulky is true iff width*height*length >= 1,000,000 or one of the
\* dimensions is >= 150, all comparisons inclusive: a volume of exactly
\* 1,000,000 or a dimension of exactly 150 is bulky, and a package with every
\* dimension below 150 and volume below 1,000,000 is not.
C2_Bulky ==
    ret.op = "is_bulky" =>
        LET v == Mul(Mul(W, H), L)
        IN /\ ret.val <=> (\/ Ge(v, Lit(1000000))
                           \/ Ge(W, Lit(150))
                           \/ Ge(H, Lit(150))
                           \/ Ge(L, Lit(150)))
           /\ v = Lit(1000000) => ret.val
           /\ (W = Lit(150) \/ H = Lit(150) \/ L = Lit(150)) => ret.val
           /\ (/\ Lt(W, Lit(150))
               /\ Lt(H, Lit(150))
               /\ Lt(L, Lit(150))
               /\ Lt(v, Lit(1000000))) => ~ret.val

\* 100 x 100 x 100: bulky by a volume of exactly 1,000,000 alone
C2_Witness ==
    /\ ret.op = "is_bulky"
    /\ ret.val
    /\ Mul(Mul(W, H), L) = Lit(1000000)
    /\ Lt(W, Lit(150)) /\ Lt(H, Lit(150)) /\ Lt(L, Lit(150))

----------------------------------------------------------------------------
(* C3 *)

\* C3: is_heavy is true iff mass >= 20, inclusive: a mass of exactly 20 is
\* heavy and a mass below 20 is not.
C3_Heavy ==
    ret.op = "is_heavy" =>
        /\ ret.val <=> Ge(M, Lit(20))
        /\ M = Lit(20) => ret.val
        /\ Lt(M, Lit(20)) => ~ret.val

\* a mass of exactly 20 has been found heavy
C3_Witness ==
    /\ ret.op = "is_heavy"
    /\ M = Lit(20)
    /\ ret.val

----------------------------------------------------------------------------
(* C4 *)

\* C4: for non-negative inputs, raising one of width, height, length or mass
\* with the other three fixed never gives a less restrictive category.
C4_Monotone ==
    (ret.op = "sort" /\ NonNeg(W) /\ NonNeg(H) /\ NonNeg(L) /\ NonNeg(M)) =>
        /\ \A w2 \in Dims : Ge(w2, W) => Rank(sort(w2, H, L, M)) >= Rank(ret.val)
        /\ \A h2 \in Dims : Ge(h2, H) => Rank(sort(W, h2, L, M)) >= Rank(ret.val)
        /\ \A l2 \in Dims : Ge(l2, L) => Rank(sort(W, H, l2, M)) >= Rank(ret.val)
        /\ \A m2 \in Masses : Ge(m2, M) => Rank(sort(W, H, L, m2)) >= Rank(ret.val)

\* a Special package that a larger length keeps Special and a larger mass
\* makes Rejected
C4_Witness ==
    /\ ret.op = "sort"
    /\ NonNeg(W) /\ NonNeg(H) /\ NonNeg(L) /\ NonNeg(M)
    /\ ret.val = "SPECIAL"
    /\ \E l2 \in Dims : Lt(L, l2) /\ sort(W, H, l2, M) = "SPECIAL"
    /\ \E m2 \in Masses : Lt(M, m2) /\ sort(W, H, L, m2) = "REJECTED"

----------------------------------------------------------------------------
(* C5 *)

\* C5: sort is total and closed: for every input, zero, negative, infinite
\* and NaN values included, it returns one of "STANDARD", "SPECIAL",
\* "REJECTED", decided by the same formulas with no validation step.
C5_Total ==
    /\ ret.op = "sort" =>
          /\ ret.val \in Strings
          /\ LET b == \/ Ge(Mul(Mul(W, H), L), Lit(1000000))
                      \/ Ge(W, Lit(150)) \/ Ge(H, Lit(150)) \/ Ge(L, Lit(150))
                 h == Ge(M, Lit(20))
             IN ret.val = IF b /\ h THEN "REJECTED"
                          ELSE IF b \/ h THEN "SPECIAL" ELSE "STANDARD"
    /\ \A i \in 1..Len(out) : out[i].category \in Strings

\* sort has classified a package with a negative width, a zero height and a
\* negative mass
C5_Witness ==
    /\ ret.op = "sort"
    /\ Lt(W, Lit(0))
    /\ H = Lit(0)
    /\ Lt(M, Lit(0))
    /\ ret.val = "STANDARD"

----------------------------------------------------------------------------
(* C7 *)

\* C7: sort agrees with the typed path: sort(w, h, l, m) is as_str of
\* Package::new(w, h, l, m).sort_category(), as_str maps Standard, Special,
\* Rejected to "STANDARD", "SPECIAL", "REJECTED", and the three strings are
\* pairwise distinct.
C7_Agree ==
    /\ ret.op = "sort" => ret.val = as_str(sort_category(package))
    /\ ret.op = "as_str" => ret.val = sort(W, H, L, M)
    /\ as_str("Standard") = "STANDARD"
    /\ as_str("Special") = "SPECIAL"
    /\ as_str("Rejected") = "REJECTED"
    /\ \A c, d \in SortCategory : as_str(c) = as_str(d) => c = d

\* the typed path new, sort_category, as_str has produced "REJECTED"
C7_Witness ==
    /\ ret.op = "as_str"
    /\ ret.val = "REJECTED"
    /\ sort(W, H, L, M) = "REJECTED"

----------------------------------------------------------------------------
(* C8 *)

\* what main is to print: inputs and category of each line, in order
Expected ==
    << <<Lit(50),  Lit(50),  Lit(50),  Lit(10), "STANDARD">>,
       <<Lit(100), Lit(100), Lit(100), Lit(10), "SPECIAL">>,
       <<Lit(160), Lit(50),  Lit(50),  Lit(10), "SPECIAL">>,
       <<Lit(50),  Lit(50),  Lit(50),  Lit(25), "SPECIAL">>,
       <<Lit(160), Lit(50),  Lit(50),  Lit(25), "REJECTED">> >>

\* the lines printed so far are the first lines expected, in order
C8_InOrder ==
    /\ Len(out) <= 5
    /\ \A i \in 1..Len(out) :
          /\ out[i].width = Expected[i][1]
          /\ out[i].height = Expected[i][2]
          /\ out[i].length = Expected[i][3]
          /\ out[i].mass = Expected[i][4]
          /\ out[i].category = Expected[i][5]
    /\ pc = "start" => out = <<>>
    /\ pc = "done" => Len(out) = 5

\* a step prints at most one line, after the lines already printed, and
\* nothing once main has returned
C8_Step ==
    /\ out' = out \/ (Len(out') = Len(out) + 1 /\ SubSeq(out', 1, Len(out)) = out)
    /\ pc = "done" => (pc' = "done" /\ out' = out)

\* C8: main processes its five samples in list order, prints exactly one
\* result line per sample and terminates; the categories printed are STANDARD,
\* SPECIAL, SPECIAL, SPECIAL, REJECTED.
C8_Driver == [](C8_InOrder) /\ [][C8_Step]_vars /\ <>(pc = "done")

\* main has returned after five lines, the last one REJECTED
C8_Witness ==
    /\ pc = "done"
    /\ Len(out) = 5
    /\ out[1].category = "STANDARD"
    /\ out[5].category = "REJECTED"

----------------------------------------------------------------------------
(* C9 *)

\* C9 as claimed: sort returns the same category for every permutation of the
\* three dimensions.
C9_AnyPermutation ==
    ret.op = "sort" =>
        /\ sort(W, L, H, M) = ret.val
        /\ sort(H, W, L, M) = ret.val
        /\ sort(H, L, W, M) = ret.val
        /\ sort(L, W, H, M) = ret.val
        /\ sort(L, H, W, M) = ret.val

\* an integer of magnitude below 2^17: products of three of them are exact
SmallInt(x) == x.k = "fin" /\ (x.m = 0 \/ (x.e >= 0 /\ Top(x.m, x.e) < 17))

\* C9 amended: exchanging width and height never changes the category, and no
\* permutation of the dimensions does when the three are integers of
\* magnitude below 2^17, whose products f64 computes exactly.
C9_SwapOrExact ==
    ret.op = "sort" =>
        /\ sort(H, W, L, M) = ret.val
        /\ (SmallInt(W) /\ SmallInt(H) /\ SmallInt(L)) =>
              /\ sort(W, L, H, M) = ret.val
              /\ sort(H, L, W, M) = ret.val
              /\ sort(L, W, H, M) = ret.val
              /\ sort(L, H, W, M) = ret.val

\* 150 x 50 x 50 is bulky by its width alone and has been classified
C9_Witness ==
    /\ ret.op = "sort"
    /\ W = Lit(150) /\ H = Lit(50) /\ L = Lit(50)
    /\ ret.val = "SPECIAL"
    /\ ~is_heavy(package)

----------------------------------------------------------------------------
(* C10 *)

\* C10: is_bulky does not depend on the mass and is_heavy does not depend on
\* the dimensions.
C10_Independent ==
    /\ ret.op = "is_bulky" =>
          \A m2 \in Masses :
              is_bulky(PackageNew(package.width, package.height, package.length,
                                  Kilograms(m2))) = ret.val
    /\ ret.op = "is_heavy" =>
          \A w2 \in Dims, h2 \in Dims, l2 \in Dims :
              is_heavy(PackageNew(Centimeters(w2), Centimeters(h2), Centimeters(l2),
                                  package.mass)) = ret.val

\* a light package with a width of 160 has been found not heavy
C10_Witness ==
    /\ ret.op = "is_heavy"
    /\ ~ret.val
    /\ W = Lit(160)
    /\ M = Lit(10)

====
